---- MODULE Spec2Model ----
(***************************************************************************)
(* Model of the trace forest of vmprof/log/objects.py: TraceForest, Trace, *)
(* Stage, FlatOp and MergePoint, driven by the calls a jitlog decoder      *)
(* makes on them.                                                          *)
(*                                                                         *)
(* Python values are encoded as follows.  An optional value is a tuple of  *)
(* length zero (None) or one (the value).  A byte string is a sequence of  *)
(* one-character strings.  A dict is a function whose DOMAIN is the set of *)
(* keys.  An exception that leaves a method is recorded, with its name, in *)
(* the variable ret; the assignments made before the raise are kept.       *)
(***************************************************************************)
EXTENDS Integers, Sequences, FiniteSets, TLC

VARIABLES
    timepos,    \* TraceForest.timepos
    patches,    \* TraceForest.patches: sequence of <<timeval, addr, content>>
    traces,     \* TraceForest.traces: unique_id -> Trace
    addrs,      \* TraceForest.addrs: address -> unique_id of a Trace
    source_lines,   \* TraceForest.source_lines: file -> sequence of <<lineno, line>>
    opened,     \* the files read from disk so far, one entry per read
    ret         \* the last call made on the forest and how it ended

vars == <<timepos, patches, traces, addrs, source_lines, opened, ret>>

\* Call(...) is the record kept in ret: the method, the trace it was made on
\* (0 for a method of the forest), its arguments, how it ended ("ok" or the
\* exception) and, for a call that returns a value, the optional value
\* returned.
Call(call, tid, args, status, value) ==
    [call |-> call, tid |-> tid, args |-> args, status |-> status, value |-> value]

-----------------------------------------------------------------------------
(* Bounds of the model. *)

MaxTime == 1        \* time_tick is taken while timepos < MaxTime
MaxOps == 2         \* operations held by all stages of the forest together
MaxDumpOps == 3     \* the same, where core dumps are read back
MaxLines == 2       \* line numbers held by all merge_point_files together
MaxBridges == 1     \* bridge records held by all traces together
MaxPatches == 1     \* patch records held by the forest
MaxNumbers == 3     \* length of the lists of line numbers handed to iter_ranges
MaxStitches == 2    \* bridge records held by all traces, where their order is looked at
MaxStageOps == 5    \* operations of the stage handed to Stage._serialize
MaxReads == 2       \* extract_source_code_lines is called while fewer files were read

-----------------------------------------------------------------------------
(* Python values. *)

None == <<>>
Some(x) == <<x>>
IsNone(x) == x = <<>>
Val(x) == x[1]

Min(a, b) == IF a < b THEN a ELSE b
Max(a, b) == IF a < b THEN b ELSE a

\* s[start:stop] of a Python sequence: a negative index counts from the end,
\* and both ends are clipped to the sequence.
PySlice(s, start, stop) ==
    LET n == Len(s)
        lo == IF start < 0 THEN Max(start + n, 0) ELSE Min(start, n)
        hi == IF stop < 0 THEN Max(stop + n, 0) ELSE Min(stop, n)
    IN  IF lo < hi THEN SubSeq(s, lo + 1, hi) ELSE <<>>

\* d[k] = v on a dict d.
DictSet(d, k, v) == [x \in DOMAIN d \cup {k} |-> IF x = k THEN v ELSE d[x]]

RECURSIVE Concat(_)
\* ''.join(list)
Concat(list) == IF list = <<>> THEN <<>> ELSE Head(list) \o Concat(Tail(list))

\* the lists of at most n elements of S
SeqsUpTo(S, n) == UNION { [1..k -> S] : k \in 0..n }

-----------------------------------------------------------------------------
(* constants.py *)

MARK_TRACE == "MARK_TRACE"
MARK_TRACE_OPT == "MARK_TRACE_OPT"
MARK_TRACE_ASM == "MARK_TRACE_ASM"

SEM_TYPE_NAMES ==
    (16 :> "opcode") @@ (8 :> "scope") @@ (1 :> "filename") @@
    (4 :> "index") @@ (2 :> "lineno")

-----------------------------------------------------------------------------
(* FlatOp and MergePoint *)

\* FlatOp.__init__
FlatOp(opnum, descr, descr_number) ==
    [cls |-> "FlatOp", opnum |-> opnum, descr |-> descr,
     descr_number |-> descr_number, core_dump |-> None]

\* MergePoint.__init__: values is a sequence of <<sem_type, value>>
MergePoint(values) == [cls |-> "MergePoint", values |-> values]

isinstance_MergePoint(op) == op.cls = "MergePoint"

\* op.has_descr() with the default argument descr=None
has_descr(op) ==
    IF isinstance_MergePoint(op) THEN FALSE ELSE ~IsNone(op.descr)

\* FlatOp.set_core_dump
FlatOp_set_core_dump(op, rel_pos, core_dump) ==
    [op EXCEPT !.core_dump = Some(<<rel_pos, core_dump>>)]

RECURSIVE ApplyPatches(_, _, _, _, _)
\* the loop of FlatOp.get_core_dump over the patches
ApplyPatches(coredump, op_off, base_addr, ps, timeval) ==
    IF ps = <<>> THEN coredump
    ELSE
        LET tp == Head(ps)[1]
            addr == Head(ps)[2]
            content == Head(ps)[3]
            patch_start == (addr - base_addr) - op_off
            over == patch_start + Len(content) >= Len(coredump)
            patch_end == IF over THEN Len(coredump) ELSE patch_start + Len(content)
            content_end == IF over THEN patch_end - patch_start ELSE Len(content) - 1
            patched == PySlice(coredump, 0, patch_start)
                       \o PySlice(content, 0, content_end)
                       \o PySlice(coredump, patch_end, Len(coredump))
        IN  IF timeval < tp
            THEN ApplyPatches(coredump, op_off, base_addr, Tail(ps), timeval)
            ELSE ApplyPatches(patched, op_off, base_addr, Tail(ps), timeval)

\* FlatOp.get_core_dump, for an op that has a core dump
FlatOp_get_core_dump(op, base_addr, ps, timeval) ==
    ApplyPatches(Val(op.core_dump)[2], Val(op.core_dump)[1], base_addr, ps, timeval)

-----------------------------------------------------------------------------
(* Stage *)

\* a stage stamped with the tick after the current one
Stage_next_tick(mark, timeval) == [mark |-> mark, ops |-> <<>>, timeval |-> timeval + 1]

\* Stage.__init__
Stage(mark, timeval) == [mark |-> mark, ops |-> <<>>, timeval |-> timeval]

\* Stage.get_last_op
get_last_op(stage) ==
    IF Len(stage.ops) = 0 THEN None ELSE Some(stage.ops[Len(stage.ops)])

------------------------------------------------------------------------\* hex(n) for n >= 0
HexDigits ==
    <<"0", "1", "2", "3", "4", "5", "6", "7", "8", "9", "a", "b", "c", "d", "e", "f">>

RECURSIVE hex_digits(_)
hex_digits(n) ==
    IF n < 16 THEN HexDigits[n + 1]
    ELSE hex_digits(n \div 16) \o HexDigits[(n % 16) + 1]

hex(n) == "0x" \o hex_digits(n)

\* FlatOp._serialize: a dict, with the keys of the fields the model keeps
FlatOp_serialize(op) ==
    LET d0 == "num" :> op.opnum
        d1 == IF ~IsNone(op.descr) /\ Val(op.descr) # ""
              THEN DictSet(d0, "descr", Val(op.descr)) ELSE d0
        d2 == IF ~IsNone(op.core_dump)
              THEN DictSet(d1, "dump", Val(op.core_dump)) ELSE d1
    IN  IF ~IsNone(op.descr_number) /\ Val(op.descr_number) # 0
        THEN DictSet(d2, "descr_number", hex(Val(op.descr_number))) ELSE d2

\* MergePoint._serialize: a dict from the names of the sem_types to the values
RECURSIVE MergePoint_serialize_loop(_, _)
MergePoint_serialize_loop(values, dict) ==
    IF values = <<>> THEN dict
    ELSE MergePoint_serialize_loop(
             Tail(values),
             DictSet(dict, SEM_TYPE_NAMES[Head(values)[1]], Head(values)[2]))

MergePoint_serialize(op) == MergePoint_serialize_loop(op.values, <<>>)

\* op._serialize()
op_serialize(op) ==
    IF isinstance_MergePoint(op) THEN MergePoint_serialize(op) ELSE FlatOp_serialize(op)

\* len(merge_points): the dict is kept as its integer keys (at) and its
\* key 'first'
len_merge_points(at, first) ==
    Cardinality(DOMAIN at) + (IF IsNone(first) THEN 0 ELSE 1)

RECURSIVE Stage_serialize_loop(_, _, _, _)
Stage_serialize_loop_first_moves(todo, ops, at, first) ==
    IF todo = <<>>
    THEN [ops |-> ops, merge_points |-> [at |-> at, first |-> first]]
    ELSE
    LET op == Head(todo)
        result == op_serialize(op)
        index == Len(ops)
        at1 == DictSet(at, index,
                       IF index \in DOMAIN at THEN Append(at[index], result)
                       ELSE <<result>>)
    IN  IF isinstance_MergePoint(op)
        THEN Stage_serialize_loop(Tail(todo), ops, at1, Some(index))
        ELSE Stage_serialize_loop(Tail(todo), Append(ops, result), at, first)

\* the loop of Stage._serialize over the ops still to visit
Stage_serialize_loop(todo, ops, at, first) ==
    IF todo = <<>>
    THEN [ops |-> ops, merge_points |-> [at |-> at, first |-> first]]
    ELSE
    LET op == Head(todo)
        result == op_serialize(op)
        index == Len(ops)
        at1 == DictSet(at, index,
                       IF index \in DOMAIN at THEN Append(at[index], result)
                       ELSE <<result>>)
    IN  IF isinstance_MergePoint(op)
        THEN Stage_serialize_loop(Tail(todo), ops, at1,
                                  IF len_merge_points(at1, first) = 1
                                  THEN Some(index) ELSE first)
        ELSE Stage_serialize_loop(Tail(todo), Append(ops, result), at, first)

\* Stage._serialize
Stage_serialize(stage) ==
    LET r == Stage_serialize_loop(stage.ops, <<>>, <<>>, None) IN
    [ops |-> r.ops, tick |-> stage.timeval, merge_points |-> r.merge_points]

-----
(* Trace *)

\* Trace.__init__
Trace(trace_type, unique_id) ==
    [type |-> trace_type, unique_id |-> unique_id, stages |-> <<>>,
     last_mark |-> None, addrs |-> <<-1, -1>>, my_patches |-> None,
     bridges |-> <<>>, descr_numbers |-> {}, merge_point_files |-> <<>>]

\* the mark_name start_mark computes for a marker
mark_name(mark) ==
    IF mark = MARK_TRACE_OPT THEN "opt"
    ELSE IF mark = MARK_TRACE_ASM THEN "asm" ELSE "noopt"

\* start_mark without the unrolling case: every marker starts a new Stage
Trace_start_mark_always_new(trace, mark, tick) ==
    [trace EXCEPT
        !.last_mark = Some(mark_name(mark)),
        !.stages = DictSet(@, mark_name(mark), Stage(mark_name(mark), tick))]

\* start_mark with the unrolling case taken for every phase, not only for the
\* unoptimized one
Trace_start_mark_any_phase(trace, mark, tick) ==
    IF trace.last_mark = Some(mark_name(mark))
    THEN trace
    ELSE [trace EXCEPT
            !.last_mark = Some(mark_name(mark)),
            !.stages = DictSet(@, mark_name(mark), Stage(mark_name(mark), tick))]

\* Trace.start_mark: the trace after the call
Trace_start_mark(trace, mark, tick) ==
    IF mark = MARK_TRACE /\ trace.last_mark = Some(mark_name(mark))
    THEN trace
    ELSE [trace EXCEPT
            !.last_mark = Some(mark_name(mark)),
            !.stages = DictSet(@, mark_name(mark), Stage(mark_name(mark), tick))]

\* stitch_bridge with the fields of the record in the order of the arguments
\* of TraceForest.stitch_bridge, the time last
Trace_stitch_bridge_swapped(trace, timeval, descr_number, addr_to) ==
    [trace EXCEPT !.bridges = Append(@, <<descr_number, addr_to, timeval>>)]

\* Trace.stitch_bridge
Trace_stitch_bridge(trace, timeval, descr_number, addr_to) ==
    [trace EXCEPT !.bridges = Append(@, <<timeval, descr_number, addr_to>>)]

\* Trace.set_addr_bounds
Trace_set_addr_bounds(trace, a, b) == [trace EXCEPT !.addrs = <<a, b>>]

\* Trace.contains_patch
contains_patch(trace, addr) == trace.addrs[1] <= addr /\ addr <= trace.addrs[2]

\* the cached patch list after the first lines of Trace.get_core_dump
cached_patches(trace, forest_patches) ==
    IF IsNone(trace.my_patches)
    THEN SelectSeq(forest_patches, LAMBDA p: contains_patch(trace, p[2]))
    ELSE Val(trace.my_patches)

RECURSIVE DumpLoop(_, _, _, _, _)
\* the loop of Trace.get_core_dump over the sliced ops: the list core_dump it
\* builds, or the exception an op raises
DumpLoop(ops, base_addr, ps, timeval, core_dump) ==
    IF ops = <<>> THEN [status |-> "ok", value |-> Some(Concat(core_dump))]
    ELSE IF isinstance_MergePoint(Head(ops))
    THEN [status |-> "NotImplementedError", value |-> None]
    ELSE IF IsNone(Head(ops).core_dump)
    THEN [status |-> "TypeError", value |-> None]
    ELSE DumpLoop(Tail(ops), base_addr, ps, timeval,
                  Append(core_dump,
                         FlatOp_get_core_dump(Head(ops), base_addr, ps, timeval)))

\* Trace.get_core_dump: what the call returns or raises; opslice is <<start, end>>
Trace_get_core_dump(trace, forest_patches, timeval, opslice) ==
    LET tv == IF timeval = -1 THEN 2147483647 ELSE timeval
        start == opslice[1]
        end == IF opslice[2] = -1 THEN Len(opslice) ELSE opslice[2]
    IN  IF "asm" \notin DOMAIN trace.stages
        THEN [status |-> "KeyError", value |-> None]
        ELSE DumpLoop(PySlice(trace.stages["asm"].ops, start, end),
                      trace.addrs[1], cached_patches(trace, forest_patches),
                      tv, <<>>)

\* MergePoint.get_source_line: <<lineno, filename>>, for values whose
\* sem_types are all keys of SEM_TYPE_NAMES
RECURSIVE get_source_line_loop(_, _, _)
get_source_line_loop(values, filename, lineno) ==
    IF values = <<>>
    THEN IF IsNone(filename) \/ IsNone(lineno)
         THEN <<0, None>> ELSE <<Val(lineno), filename>>
    ELSE LET name == SEM_TYPE_NAMES[Head(values)[1]]
             value == Head(values)[2]
         IN  get_source_line_loop(Tail(values),
                 IF name = "filename" THEN Some(value) ELSE filename,
                 IF name = "lineno" THEN Some(value) ELSE lineno)

get_source_line(op) == get_source_line_loop(op.values, None, None)

\* range(a, b): the integers a, a+1, ..., b-1 in order
range(a, b) == [k \in 1..Max(b - a, 0) |-> a + k - 1]

\* list.sort() on a list of integers
sort(numbers) == SortSeq(numbers, LAMBDA a, b : a < b)

\* the for loop of iter_ranges over enumerate(numbers[1:]), from position
\* pos on; the value is the sequence of the ranges yielded
RECURSIVE iter_ranges_loop(_, _, _, _)
iter_ranges_loop(numbers, pos, first, last) ==
    IF pos + 1 > Len(PySlice(numbers, 1, Len(numbers)))
    THEN << range(first, last + 1) >>
    ELSE LET i == numbers[pos + 2] IN
         IF (i - first) > 50
         THEN IF pos + 1 < Len(numbers)
              THEN << range(first, last + 1) >>
                       \o iter_ranges_loop(numbers, pos + 1, i, i)
              ELSE << range(first, last + 1) >>      \* raise StopIteration
         ELSE iter_ranges_loop(numbers, pos + 1, first, i)

iter_ranges_no_sort(numbers) ==
    IF Len(numbers) = 0
    THEN <<>>
    ELSE iter_ranges_loop(numbers, 0, numbers[1], numbers[1])

\* iter_ranges(numbers): the ranges the generator yields, in order; the
\* list is sorted in place first
iter_ranges(numbers) ==
    IF Len(numbers) = 0
    THEN <<>>
    ELSE LET sorted == sort(numbers) IN
         iter_ranges_loop(sorted, 0, sorted[1], sorted[1])

\* PY3 = sys.version_info[0] >= 3; the module is run by the interpreter it
\* was written for, Python 2 (a generator ends by raise StopIteration)
PY3 == FALSE

\* The files open() finds, with their bytes; a file that is not here cannot
\* be read.
Disk == "a.py" :> <<"x", "\n", "y", "\n", "z", "\n">>

\* data.splitlines(): the lines of data, without their line ends
RECURSIVE splitlines_loop(_, _)
splitlines_loop(data, line) ==
    IF data = <<>>
    THEN IF line = <<>> THEN <<>> ELSE <<line>>
    ELSE IF Head(data) = "\n"
         THEN <<line>> \o splitlines_loop(Tail(data), <<>>)
         ELSE splitlines_loop(Tail(data), Append(line, Head(data)))

splitlines(data) == splitlines_loop(data, <<>>)

\* for r in range: saved_lines.append((r, split_lines[r-1])), over the
\* numbers rs of all ranges in order; an index off the list raises
\* IndexError and keeps what was appended before
RECURSIVE save_lines(_, _, _)
save_lines(saved_lines, rs, split_lines) ==
    IF rs = <<>>
    THEN [status |-> "ok", value |-> saved_lines]
    ELSE LET r == Head(rs)
             n == Len(split_lines)
             idx == r - 1
         IN  IF idx >= n \/ idx < -n
             THEN [status |-> "IndexError", value |-> saved_lines]
             ELSE save_lines(
                      Append(saved_lines,
                             <<r, split_lines[IF idx < 0 THEN idx + n + 1 ELSE idx + 1]>>),
                      Tail(rs), split_lines)

\* The two loops of extract_source_code_lines over the <<trace id, file>>
\* pairs still to visit. file_contents lives for one call; reads is the list
\* of the files read from disk.
RECURSIVE extract_loop(_, _, _, _, _)
extract_loop(todo, trs, file_contents, saved, reads) ==
    IF todo = <<>>
    THEN [status |-> "ok", traces |-> trs, source_lines |-> saved, opened |-> reads]
    ELSE
    LET tid == Head(todo)[1]
        file == Head(todo)[2]
        lines == trs[tid].merge_point_files[file]
        fresh == file \notin DOMAIN file_contents
    IN  IF fresh /\ file \notin DOMAIN Disk
        THEN [status |-> "IOError", traces |-> trs, source_lines |-> saved,
              opened |-> reads]
        ELSE IF fresh /\ PY3
        THEN [status |-> "AttributeError", traces |-> trs, source_lines |-> saved,
              opened |-> Append(reads, file)]
        ELSE
        LET contents == IF fresh
                        THEN DictSet(file_contents, file, splitlines(Disk[file]))
                        ELSE file_contents
            reads1 == IF fresh THEN Append(reads, file) ELSE reads
            split_lines == contents[file]
            saved1 == IF file \in DOMAIN saved THEN saved ELSE DictSet(saved, file, <<>>)
            trs1 == [trs EXCEPT ![tid].merge_point_files[file] = sort(lines)]
            r == save_lines(saved1[file], Concat(iter_ranges(lines)), split_lines)
            saved2 == DictSet(saved1, file, r.value)
        IN  IF r.status # "ok"
            THEN [status |-> r.status, traces |-> trs1, source_lines |-> saved2,
                  opened |-> reads1]
            ELSE extract_loop(Tail(todo), trs1, contents, saved2, reads1)

\* the orders a dict may hand out the keys S in
Orderings(S) ==
    { o \in [1..Cardinality(S) -> S] : \A i, j \in DOMAIN o : o[i] = o[j] => i = j }

\* the <<trace id, file>> pairs in the orders the two nested loops over
\* self.traces.items() and trace.merge_point_files.items() may visit them
VisitOrders(trs) ==
    { Concat([i \in DOMAIN to |->
                 [j \in DOMAIN fo[to[i]] |-> <<to[i], fo[to[i]][j]>>]]) :
        to \in Orderings(DOMAIN trs),
        fo \in { f \in [DOMAIN trs -> UNION { Orderings(DOMAIN trs[t].merge_point_files) : t \in DOMAIN trs }] :
                   \A t \in DOMAIN trs : f[t] \in Orderings(DOMAIN trs[t].merge_point_files) } }

-----------------------------------------------------------------------------
(* Sizes the guards of the model bound. *)

RECURSIVE SumOver(_, _)
SumOver(f, S) ==
    IF S = {} THEN 0
    ELSE LET x == CHOOSE y \in S : TRUE IN f[x] + SumOver(f, S \ {x})

OpsOfTrace(trace) ==
    SumOver([m \in DOMAIN trace.stages |-> Len(trace.stages[m].ops)],
            DOMAIN trace.stages)

TotalOps == SumOver([t \in DOMAIN traces |-> OpsOfTrace(traces[t])], DOMAIN traces)

LinesOfTrace(trace) ==
    SumOver([f \in DOMAIN trace.merge_point_files |->
                Len(trace.merge_point_files[f])],
            DOMAIN trace.merge_point_files)

TotalLines == SumOver([t \in DOMAIN traces |-> LinesOfTrace(traces[t])], DOMAIN traces)

TotalBridges ==
    SumOver([t \in DOMAIN traces |-> Len(traces[t].bridges)], DOMAIN traces)

-----------------------------------------------------------------------------
(* The calls. *)

Init ==
    /\ timepos = 0
    /\ patches = <<>>
    /\ traces = <<>>
    /\ addrs = <<>>
    /\ source_lines = <<>>
    /\ opened = <<>>
    /\ ret = Call("__init__", 0, <<>>, "ok", None)

\* TraceForest.add_trace
add_trace(trace_type, unique_id) ==
    /\ traces' = DictSet(traces, unique_id, Trace(trace_type, unique_id))
    /\ ret' = Call("add_trace", 0, <<trace_type, unique_id>>, "ok", None)
    /\ UNCHANGED <<timepos, patches, addrs, source_lines, opened>>

\* TraceForest.time_tick
time_tick ==
    /\ timepos' = timepos + 1
    /\ ret' = Call("time_tick", 0, <<>>, "ok", None)
    /\ UNCHANGED <<patches, traces, addrs, source_lines, opened>>

\* TraceForest.patch_memory
patch_memory(addr, content, timeval) ==
    /\ patches' = Append(patches, <<timeval, addr, content>>)
    /\ ret' = Call("patch_memory", 0, <<addr, content, timeval>>, "ok", None)
    /\ UNCHANGED <<timepos, traces, addrs, source_lines, opened>>

\* TraceForest.stitch_bridge: the loop takes the first trace, in the order of
\* the dict, whose descr_numbers holds descr_number; the order of a dict is
\* not fixed by its keys, so any such trace may be the first
stitch_bridge(descr_number, addr_to) ==
    LET owners == {t \in DOMAIN traces : Some(descr_number) \in traces[t].descr_numbers}
    IN  /\ \/ /\ owners = {}
              /\ traces' = traces
              /\ ret' = Call("stitch_bridge", 0, <<descr_number, addr_to>>,
                             "NotImplementedError", None)
           \/ /\ \E t \in owners :
                    /\ traces' = [traces EXCEPT ![t] =
                          Trace_stitch_bridge(@, timepos, descr_number, addr_to)]
                    /\ ret' = Call("stitch_bridge", 0, <<descr_number, addr_to>>,
                                   "ok", None)
        /\ UNCHANGED <<timepos, patches, addrs, source_lines, opened>>

\* TraceForest.get_trace_by_addr
get_trace_by_addr(addr) ==
    /\ ret' = Call("get_trace_by_addr", 0, <<addr>>, "ok",
                   IF addr \in DOMAIN addrs THEN Some(addrs[addr]) ELSE None)
    /\ UNCHANGED <<timepos, patches, traces, addrs, source_lines, opened>>

\* start_mark counted as a tick of the clock
start_mark_ticking(tid, mark) ==
    /\ tid \in DOMAIN traces
    /\ traces' = [traces EXCEPT ![tid] = Trace_start_mark(@, mark, timepos)]
    /\ ret' = Call("start_mark", tid, <<mark>>, "ok", None)
    /\ timepos' = IF timepos < MaxTime THEN timepos + 1 ELSE timepos
    /\ UNCHANGED <<patches, addrs, source_lines, opened>>

\* Trace.start_mark on the trace registered as tid
start_mark(tid, mark) ==
    /\ tid \in DOMAIN traces
    /\ traces' = [traces EXCEPT ![tid] = Trace_start_mark(@, mark, timepos)]
    /\ ret' = Call("start_mark", tid, <<mark>>, "ok", None)
    /\ UNCHANGED <<timepos, patches, addrs, source_lines, opened>>

\* Trace.add_instr: the trace after the call (registration of the descriptor,
\* then the append to the current stage, then the merge point's source line)
Trace_add_instr(trace, op) ==
    LET t1 == IF has_descr(op)
              THEN [trace EXCEPT !.descr_numbers = @ \cup {op.descr_number}]
              ELSE trace
        t2 == [t1 EXCEPT !.stages[Val(trace.last_mark)].ops = Append(@, op)]
        src == get_source_line(op)
        lineno == src[1]
        filename == src[2]
        files == t2.merge_point_files
    IN  IF IsNone(trace.last_mark) THEN t1
        ELSE IF isinstance_MergePoint(op) /\ ~IsNone(filename) /\ Val(filename) # ""
        THEN [t2 EXCEPT !.merge_point_files =
                DictSet(files, Val(filename),
                        IF Val(filename) \in DOMAIN files
                        THEN Append(files[Val(filename)], lineno)
                        ELSE <<lineno>>)]
        ELSE t2

\* Trace.add_instr on the trace registered as tid
add_instr(tid, op) ==
    /\ tid \in DOMAIN traces
    /\ traces' = [traces EXCEPT ![tid] = Trace_add_instr(@, op)]
    /\ ret' = Call("add_instr", tid, <<op>>,
                   IF IsNone(traces[tid].last_mark) THEN "AssertionError" ELSE "ok",
                   None)
    /\ UNCHANGED <<timepos, patches, addrs, source_lines, opened>>

\* Trace.set_core_dump_to_last_op: what the call raises, or "ok"
set_core_dump_status(trace) ==
    IF IsNone(trace.last_mark) THEN "AssertionError"
    ELSE LET flatop == get_last_op(trace.stages[Val(trace.last_mark)])
         IN  IF IsNone(flatop) THEN "AttributeError"
             ELSE IF isinstance_MergePoint(Val(flatop)) THEN "NotImplementedError"
             ELSE "ok"

\* set_core_dump_to_last_op that looks for the last FlatOp of the stage
Trace_set_core_dump_to_last_flatop(trace, rel_pos, dump) ==
    IF IsNone(trace.last_mark) THEN trace
    ELSE LET m == Val(trace.last_mark)
             flat == {k \in DOMAIN trace.stages[m].ops :
                        ~isinstance_MergePoint(trace.stages[m].ops[k])}
         IN  IF flat = {} THEN trace
             ELSE LET n == CHOOSE k \in flat : \A j \in flat : j <= k IN
                  [trace EXCEPT !.stages[m].ops[n] = FlatOp_set_core_dump(@, rel_pos, dump)]

\* Trace.set_core_dump_to_last_op: the trace after the call
Trace_set_core_dump_to_last_op(trace, rel_pos, dump) ==
    IF set_core_dump_status(trace) # "ok" THEN trace
    ELSE LET m == Val(trace.last_mark)
             n == Len(trace.stages[m].ops)
         IN  [trace EXCEPT !.stages[m].ops[n] = FlatOp_set_core_dump(@, rel_pos, dump)]

\* Trace.set_core_dump_to_last_op on the trace registered as tid
set_core_dump_to_last_op(tid, rel_pos, dump) ==
    /\ tid \in DOMAIN traces
    /\ traces' = [traces EXCEPT ![tid] = Trace_set_core_dump_to_last_op(@, rel_pos, dump)]
    /\ ret' = Call("set_core_dump_to_last_op", tid, <<rel_pos, dump>>,
                   set_core_dump_status(traces[tid]), None)
    /\ UNCHANGED <<timepos, patches, addrs, source_lines, opened>>

\* Trace.set_addr_bounds on the trace registered as tid
set_addr_bounds(tid, a, b) ==
    /\ tid \in DOMAIN traces
    /\ traces' = [traces EXCEPT ![tid] = Trace_set_addr_bounds(@, a, b)]
    /\ ret' = Call("set_addr_bounds", tid, <<a, b>>, "ok", None)
    /\ UNCHANGED <<timepos, patches, addrs, source_lines, opened>>

\* Trace.get_core_dump on the trace registered as tid
get_core_dump(tid, timeval, opslice) ==
    /\ tid \in DOMAIN traces
    /\ LET out == Trace_get_core_dump(traces[tid], patches, timeval, opslice)
       IN  ret' = Call("get_core_dump", tid, <<timeval, opslice>>,
                       out.status, out.value)
    /\ traces' = [traces EXCEPT ![tid].my_patches =
                      Some(cached_patches(traces[tid], patches))]
    /\ UNCHANGED <<timepos, patches, addrs, source_lines, opened>>

-----------------------------------------------------------------------------
(* Inputs of the calls. *)

\* TraceForest.extract_source_code_lines()
extract_source_code_lines ==
    \E todo \in VisitOrders(traces) :
        LET r == extract_loop(todo, traces, <<>>, source_lines, opened) IN
        /\ traces' = r.traces
        /\ source_lines' = r.source_lines
        /\ opened' = r.opened
        /\ ret' = Call("extract_source_code_lines", 0, <<>>, r.status, None)
        /\ UNCHANGED <<timepos, patches, addrs>>


Marks == {MARK_TRACE, MARK_TRACE_OPT, MARK_TRACE_ASM}
DescrNumbers == {7, 8}
BridgeTargets == {4096}

\* a plain operation, a guard with descriptor text and number, an operation
\* with a descriptor number and no text, and a merge point naming a source line
PlainOp == FlatOp(1, None, None)
GuardOp == FlatOp(2, Some("descr"), Some(7))
NumberOnlyOp == FlatOp(3, None, Some(7))
SourceLine == MergePoint(<< <<1, "a.py">>, <<2, 3>> >>)
FirstLine == MergePoint(<< <<1, "a.py">>, <<2, 1>> >>)
MissingFile == MergePoint(<< <<1, "b.py">>, <<2, 1>> >>)

\* captures of machine code, as <<rel_pos, dump>>: eight bytes at offset 0
\* and two bytes behind them
Captures ==
    { <<0, <<"A", "A", "A", "A", "A", "A", "A", "A">> >>, <<8, <<"B", "B">> >> }
AddrBounds == { <<1000, 1009>> }
DumpAddrBounds == { <<1000, 1009>>, <<1001, 1009>> }
PatchAddrs == {1002, 1008}
PatchContents == { <<"X", "X">> }
PatchTimes == {0, 5}
QueryTimes == {-1, 4, 5}
OpSlices == { <<0, -1>>, <<0, 3>> }
LookupAddrs == {999, 1000, 1009}

-----------------------------------------------------------------------------
(* Spec: one trace under every call of the decoder. *)

OpInputs == <<PlainOp, GuardOp>>

Next ==
    \/ add_trace("loop", 1)
    \/ timepos < MaxTime /\ time_tick
    \/ start_mark(1, MARK_TRACE_ASM)
    \/ TotalOps < MaxOps /\ \E i \in DOMAIN OpInputs : add_instr(1, OpInputs[i])
    \/ TotalBridges < MaxBridges /\ \E a \in BridgeTargets : stitch_bridge(7, a)
    \/ set_core_dump_to_last_op(1, 0, <<"A", "A">>)
    \/ \E b \in AddrBounds : set_addr_bounds(1, b[1], b[2])
    \/ Len(patches) < MaxPatches /\ \E c \in PatchContents :
          patch_memory(1000, c, timepos)
    \/ get_core_dump(1, -1, <<0, -1>>)
    \/ \E a \in LookupAddrs : get_trace_by_addr(a)

Spec == Init /\ [][Next]_vars

-----------------------------------------------------------------------------
(* SpecStage: the phases of one trace and the operations added to them. *)

StageOpInputs == <<PlainOp, GuardOp, SourceLine>>

NextStage ==
    \/ add_trace("loop", 1)
    \/ timepos < MaxTime /\ time_tick
    \/ \E mark \in Marks : start_mark(1, mark)
    \/ TotalOps < MaxOps /\ TotalLines < MaxLines /\
          \E i \in DOMAIN StageOpInputs : add_instr(1, StageOpInputs[i])
    \/ get_core_dump(1, -1, <<0, -1>>)

SpecStage == Init /\ [][NextStage]_vars

-----------------------------------------------------------------------------
(* SpecBridge: two traces in their unoptimized phase, and the bridges       *)
(* stitched onto them.                                                      *)

TraceIds == {1, 2}
TraceTypes == (1 :> "loop") @@ (2 :> "bridge")
BridgeOpInputs == <<PlainOp, GuardOp, NumberOnlyOp>>

NextBridge ==
    \/ \E id \in TraceIds : add_trace(TraceTypes[id], id)
    \/ timepos < MaxTime /\ time_tick
    \/ \E tid \in TraceIds : start_mark(tid, MARK_TRACE)
    \/ TotalOps < MaxOps /\ \E tid \in TraceIds, i \in DOMAIN BridgeOpInputs :
          add_instr(tid, BridgeOpInputs[i])
    \/ TotalBridges < MaxBridges /\ \E d \in DescrNumbers, a \in BridgeTargets :
          stitch_bridge(d, a)

SpecBridge == Init /\ [][NextBridge]_vars

-----------------------------------------------------------------------------
(* SpecDump: the assembly stage of one trace, its captures, the patches of  *)
(* the forest and the core dumps read back.                                 *)

DumpOpInputs == <<PlainOp, SourceLine>>

NextDump ==
    \/ add_trace("loop", 1)
    \/ timepos < MaxTime /\ time_tick
    \/ start_mark(1, MARK_TRACE_ASM)
    \/ TotalOps < MaxDumpOps /\ TotalLines < MaxLines /\
          \E i \in DOMAIN DumpOpInputs : add_instr(1, DumpOpInputs[i])
    \/ \E c \in Captures : set_core_dump_to_last_op(1, c[1], c[2])
    \/ \E b \in DumpAddrBounds : set_addr_bounds(1, b[1], b[2])
    \/ Len(patches) < MaxPatches /\
          \E a \in PatchAddrs, c \in PatchContents, t \in PatchTimes :
             patch_memory(a, c, t)
    \/ \E t \in QueryTimes, sl \in OpSlices : get_core_dump(1, t, sl)

SpecDump == Init /\ [][NextDump]_vars

\* ---- source lines: merge points of two traces, read back from the files ----
SourceOpInputs == <<SourceLine, FirstLine, MissingFile>>

NextSource ==
    \/ \E id \in TraceIds : add_trace(TraceTypes[id], id)
    \/ \E tid \in TraceIds : start_mark(tid, MARK_TRACE)
    \/ TotalOps < MaxOps /\ TotalLines < MaxLines /\
           \E tid \in TraceIds, i \in DOMAIN SourceOpInputs :
               add_instr(tid, SourceOpInputs[i])
    \/ Len(opened) < MaxReads /\ extract_source_code_lines

SpecSource == Init /\ [][NextSource]_vars

\* ---- Stage._serialize on its own: a stage of a trace is filled with a
\* sequence of operations, then serialized ----
SerializeOpInputs == {PlainOp, GuardOp, SourceLine, FirstLine}

\* the trace after start_mark(MARK_TRACE) and one add_instr per op
RECURSIVE TraceWithOps(_, _)
TraceWithOps(trace, ops) ==
    IF ops = <<>> THEN trace
    ELSE TraceWithOps(Trace_add_instr(trace, Head(ops)), Tail(ops))

InitSerialize ==
    /\ timepos = 0
    /\ patches = <<>>
    /\ addrs = <<>>
    /\ source_lines = <<>>
    /\ opened = <<>>
    /\ ret = Call("__init__", 0, <<>>, "ok", None)
    /\ \E ops \in SeqsUpTo(SerializeOpInputs, MaxStageOps) :
           traces = 1 :> TraceWithOps(
                            Trace_start_mark(Trace("loop", 1), MARK_TRACE, 0), ops)

\* Stage._serialize on the stage mark of the trace registered as tid
serialize(tid, mark) ==
    /\ tid \in DOMAIN traces
    /\ mark \in DOMAIN traces[tid].stages
    /\ ret' = Call("_serialize", tid, <<mark>>, "ok",
                   Some(Stage_serialize(traces[tid].stages[mark])))
    /\ UNCHANGED <<timepos, patches, traces, addrs, source_lines, opened>>

NextSerialize == serialize(1, "noopt")

SpecSerialize == InitSerialize /\ [][NextSerialize]_vars

\* ---- captures: core dumps attached to the last operation of the stage ----
NextCapture ==
    \/ add_trace("loop", 1)
    \/ start_mark(1, MARK_TRACE_ASM)
    \/ TotalOps < MaxDumpOps /\ TotalLines < MaxLines /\
           \E i \in DOMAIN DumpOpInputs : add_instr(1, DumpOpInputs[i])
    \/ \E c \in Captures : set_core_dump_to_last_op(1, c[1], c[2])

SpecCapture == Init /\ [][NextCapture]_vars

\* ---- the clock: stages and bridges of two traces stamped while time passes ----
NextClock ==
    \/ \E id \in TraceIds : add_trace(TraceTypes[id], id)
    \/ timepos < MaxTime /\ time_tick
    \/ \E tid \in TraceIds : start_mark(tid, MARK_TRACE)
    \/ TotalOps < MaxOps /\ \E tid \in TraceIds : add_instr(tid, GuardOp)
    \/ TotalBridges < MaxStitches /\ \E a \in BridgeTargets : stitch_bridge(7, a)

SpecClock == Init /\ [][NextClock]_vars

\* ---- iter_ranges on its own: a list of line numbers is drawn, then the
\* generator is run over it ----
LineNumbers == {1, 2, 3, 51, 52, 60, 61, 200}
NumberLists ==
    SeqsUpTo(LineNumbers, MaxNumbers)
        \cup { <<1, 2, 3, 60, 61, 200>>, <<200, 61, 3, 60, 2, 1>> }

InitRanges ==
    /\ timepos = 0
    /\ patches = <<>>
    /\ traces = <<>>
    /\ addrs = <<>>
    /\ source_lines = <<>>
    /\ opened = <<>>
    /\ \E numbers \in NumberLists :
           ret = Call("iter_ranges", 0, <<numbers>>, "pending", None)

\* list(iter_ranges(numbers)) on the list drawn
iter_ranges_call ==
    /\ ret.call = "iter_ranges"
    /\ ret.status = "pending"
    /\ ret' = Call("iter_ranges", 0, ret.args, "ok", Some(iter_ranges(ret.args[1])))
    /\ UNCHANGED <<timepos, patches, traces, addrs, source_lines, opened>>

NextRanges == iter_ranges_call

SpecRanges == InitRanges /\ [][NextRanges]_vars

-----------------------------------------------------------------------------
(* Stitching a bridge. *)

\* the traces whose descr_numbers hold descr_number
Owners(descr_number) ==
    {t \in DOMAIN traces : Some(descr_number) \in traces[t].descr_numbers}

\* C1: a stitch_bridge(descr_number, addr_to) call made when exactly one
\* trace has registered descr_number ends normally, appends exactly the
\* record <<timepos, descr_number, addr_to>> to the bridges of that trace and
\* leaves the bridges of every other trace as they were; made when no trace
\* has registered descr_number it raises and changes no trace's bridges.
C1_StitchBridge ==
    [][ret'.call = "stitch_bridge" =>
        LET d == ret'.args[1]
            a == ret'.args[2]
        IN  /\ DOMAIN traces' = DOMAIN traces
            /\ Cardinality(Owners(d)) = 1 =>
                  /\ ret'.status = "ok"
                  /\ \A t \in DOMAIN traces :
                        traces'[t].bridges =
                            IF t \in Owners(d)
                            THEN Append(traces[t].bridges, <<timepos, d, a>>)
                            ELSE traces[t].bridges
            /\ Owners(d) = {} =>
                  /\ ret'.status = "NotImplementedError"
                  /\ \A t \in DOMAIN traces : traces'[t].bridges = traces[t].bridges
    ]_vars

\* a bridge has just been stitched onto the one trace, of two, that had
\* registered its descriptor number
C1_Witness ==
    /\ ret.call = "stitch_bridge"
    /\ ret.status = "ok"
    /\ DOMAIN traces = {1, 2}
    /\ Cardinality(Owners(ret.args[1])) = 1
    /\ \E t \in Owners(ret.args[1]) : Len(traces[t].bridges) = 1
    /\ \E t \in DOMAIN traces \ Owners(ret.args[1]) :
          /\ traces[t].bridges = <<>>
          /\ ~IsNone(traces[t].last_mark)

-----------------------------------------------------------------------------
(* Registration of descriptor numbers. *)

\* C2: every operation held by a stage of a trace that carries a descriptor
\* number has that number in the descr_numbers of the trace.
C2_DescrRegistered ==
    \A t \in DOMAIN traces : \A m \in DOMAIN traces[t].stages :
        \A i \in DOMAIN traces[t].stages[m].ops :
            LET op == traces[t].stages[m].ops[i]
            IN  (~isinstance_MergePoint(op) /\ ~IsNone(op.descr_number))
                    => op.descr_number \in traces[t].descr_numbers

-----------------------------------------------------------------------------
(* The phases of a trace. *)

\* C3: a start_mark(MARK_TRACE) received by a trace whose current phase is
\* already the unoptimized one creates no stage: the stages, their ops and
\* the timeval of the unoptimized stage stay as they were; and every add_instr
\* made in the unoptimized phase appends its operation to the end of that one
\* stage, so the stage holds the operations of both spans in the order added.
C3_UnrollingMerge ==
    [][ /\ (/\ ret'.call = "start_mark"
            /\ ret'.args[1] = MARK_TRACE
            /\ traces[ret'.tid].last_mark = Some("noopt"))
           => /\ traces'[ret'.tid].stages = traces[ret'.tid].stages
              /\ traces'[ret'.tid].last_mark = Some("noopt")
        /\ (/\ ret'.call = "add_instr"
            /\ traces[ret'.tid].last_mark = Some("noopt"))
           => /\ DOMAIN traces'[ret'.tid].stages = DOMAIN traces[ret'.tid].stages
              /\ traces'[ret'.tid].stages["noopt"].ops =
                    Append(traces[ret'.tid].stages["noopt"].ops, ret'.args[1])
              /\ traces'[ret'.tid].stages["noopt"].timeval =
                    traces[ret'.tid].stages["noopt"].timeval
    ]_vars

\* a second unoptimized marker has just been received, after a tick of the
\* clock, by a trace whose unoptimized stage already holds an operation
C3_Witness ==
    /\ ret.call = "start_mark"
    /\ ret.args[1] = MARK_TRACE
    /\ Len(traces[ret.tid].stages["noopt"].ops) >= 1
    /\ traces[ret.tid].stages["noopt"].timeval < timepos

\* C4, as claimed: a start_mark for the phase that is already current, whatever
\* the phase, keeps the operations of the existing stage.
C4_EveryPhaseAppends ==
    [][ (/\ ret'.call = "start_mark"
         /\ traces[ret'.tid].last_mark = Some(mark_name(ret'.args[1])))
        => traces'[ret'.tid].stages[mark_name(ret'.args[1])].ops =
              traces[ret'.tid].stages[mark_name(ret'.args[1])].ops
    ]_vars

\* C4, amended: a trace holds at most one Stage per phase, each under its
\* own phase; a start_mark for the unoptimized phase while that phase is
\* current keeps the stages as they are; every other start_mark puts a new,
\* empty Stage stamped with timepos in the place of the phase's stage, makes
\* the phase current and keeps the stages of the other phases.
C4_StagePerPhase ==
    /\ [](\A t \in DOMAIN traces :
            /\ DOMAIN traces[t].stages \subseteq {"noopt", "opt", "asm"}
            /\ \A m \in DOMAIN traces[t].stages : traces[t].stages[m].mark = m
            /\ ~IsNone(traces[t].last_mark) =>
                  Val(traces[t].last_mark) \in DOMAIN traces[t].stages)
    /\ [][ ret'.call = "start_mark" =>
            LET old == traces[ret'.tid]
                new == traces'[ret'.tid]
                m == mark_name(ret'.args[1])
            IN  IF ret'.args[1] = MARK_TRACE /\ old.last_mark = Some("noopt")
                THEN new.stages = old.stages /\ new.last_mark = old.last_mark
                ELSE /\ new.last_mark = Some(m)
                     /\ DOMAIN new.stages = DOMAIN old.stages \cup {m}
                     /\ new.stages[m] = Stage(m, timepos)
                     /\ \A k \in DOMAIN old.stages \ {m} :
                           new.stages[k] = old.stages[k]
       ]_vars

\* the unoptimized phase has just been entered again, its stage keeping the
\* operations it held, in a trace that also holds an optimized stage
C4_Witness ==
    /\ ret.call = "start_mark"
    /\ ret.args[1] = MARK_TRACE
    /\ traces[ret.tid].last_mark = Some("noopt")
    /\ traces[ret.tid].stages["noopt"].ops # <<>>
    /\ "opt" \in DOMAIN traces[ret.tid].stages

-----------------------------------------------------------------------------
(* Core dumps. *)

RECURSIVE RawCaptures(_)
\* the raw captures of a list of operations that all have one, concatenated
RawCaptures(ops) ==
    IF ops = <<>> THEN <<>>
    ELSE Val(Head(ops).core_dump)[2] \o RawCaptures(Tail(ops))

\* every operation of the list is a FlatOp that has a core dump
AllCaptured(ops) ==
    \A i \in DOMAIN ops : ~isinstance_MergePoint(ops[i]) /\ ~IsNone(ops[i].core_dump)

\* C5: with no patch in the forest, get_core_dump with the default timeval
\* and the default slice, on a trace whose assembly stage holds operations
\* that all have a capture, returns the captures of all of them, concatenated
\* in order.
C5_DumpWithoutPatches ==
    (/\ ret.call = "get_core_dump"
     /\ ret.args = <<-1, <<0, -1>>>>
     /\ patches = <<>>
     /\ "asm" \in DOMAIN traces[ret.tid].stages
     /\ AllCaptured(traces[ret.tid].stages["asm"].ops))
    => /\ ret.status = "ok"
       /\ ret.value = Some(RawCaptures(traces[ret.tid].stages["asm"].ops))

\* capture with content laid over it from position pos (counted from 0) on
Overlay(capture, pos, content) ==
    [i \in 1..Len(capture) |->
        IF pos < i /\ i <= pos + Len(content) THEN content[i - pos] ELSE capture[i]]

\* C6: for an assembly stage of one operation with capture C at offset o, in
\* a trace with base address B whose cached patches are the one patch
\* <<t_p, a, content>> lying inside the capture, get_core_dump at a timeval
\* >= t_p (the default timeval counting as the latest time) returns C with
\* content laid over it at (a - B) - o, and at a timeval < t_p returns C.
C6_PatchOverlay ==
    (/\ ret.call = "get_core_dump"
     /\ "asm" \in DOMAIN traces[ret.tid].stages
     /\ Len(traces[ret.tid].stages["asm"].ops) = 1
     /\ AllCaptured(traces[ret.tid].stages["asm"].ops)
     /\ Len(Val(traces[ret.tid].my_patches)) = 1)
    => LET trace == traces[ret.tid]
           dump == Val(trace.stages["asm"].ops[1].core_dump)
           patch == Val(trace.my_patches)[1]
           pos == (patch[2] - trace.addrs[1]) - dump[1]
           inside == 0 <= pos /\ pos + Len(patch[3]) <= Len(dump[2])
           timeval == ret.args[1]
       IN  inside =>
              /\ ret.status = "ok"
              /\ ret.value =
                    IF timeval = -1 \/ timeval >= patch[1]
                    THEN Some(Overlay(dump[2], pos, patch[3]))
                    ELSE Some(dump[2])

-----------------------------------------------------------------------------
(* Patches and the clock. *)

\* C7: every patch_memory call appends a record whose time is the value of
\* timepos at the call.
C7_PatchStamp ==
    [][ ret'.call = "patch_memory" =>
           patches' = Append(patches, <<timepos, ret'.args[1], ret'.args[2]>>)
    ]_vars

\* C8: timepos is a natural number; a time_tick call raises it by one and no
\* other call changes it.
C8_LogicalClock ==
    /\ [](timepos \in Nat)
    /\ [][ IF ret'.call = "time_tick"
           THEN timepos' = timepos + 1
           ELSE timepos' = timepos ]_vars

\* the clock has ticked in a forest that holds a trace with an assembly
\* stage, address bounds and a bridge, and a patch
C8_Witness ==
    /\ ret.call = "time_tick"
    /\ timepos = 1
    /\ patches # <<>>
    /\ 1 \in DOMAIN traces
    /\ "asm" \in DOMAIN traces[1].stages
    /\ traces[1].addrs # <<-1, -1>>
    /\ traces[1].bridges # <<>>

\* C9: get_core_dump on a trace that has no assembly stage ends normally and
\* returns None.
C9_NoAssemblyStage ==
    (/\ ret.call = "get_core_dump"
     /\ "asm" \notin DOMAIN traces[ret.tid].stages)
    => ret.status = "ok" /\ ret.value = None

-----------------------------------------------------------------------------
(* The address index. *)

\* the traces whose address bounds have been set and hold addr
Holders(addr) ==
    {t \in DOMAIN traces :
        /\ traces[t].addrs # <<-1, -1>>
        /\ traces[t].addrs[1] <= addr
        /\ addr <= traces[t].addrs[2]}

\* C10: get_trace_by_addr(a) returns the trace whose address bounds, once
\* set, hold a, and returns None for an address no trace holds.
C10_AddressIndex ==
    ret.call = "get_trace_by_addr" =>
        /\ ret.status = "ok"
        /\ \A t \in Holders(ret.args[1]) : ret.value = Some(t)
        /\ Holders(ret.args[1]) = {} => ret.value = None

\* ---- C11 ----
\* The reference of the claim on a sorted list: a number extends the
\* current run while it is at most 50 above the run's start, otherwise the
\* run [run_start, run_end] is closed and a new one starts at the number.
RECURSIVE RefRuns(_, _, _)
RefRuns(rest, run_start, run_end) ==
    IF rest = <<>>
    THEN << <<run_start, run_end>> >>
    ELSE LET n == Head(rest) IN
         IF n - run_start <= 50
         THEN RefRuns(Tail(rest), run_start, n)
         ELSE << <<run_start, run_end>> >> \o RefRuns(Tail(rest), n, n)

Ascending(numbers) ==
    CHOOSE s \in [1..Len(numbers) -> {numbers[k] : k \in DOMAIN numbers}] :
        /\ \A k \in 1..(Len(s) - 1) : s[k] <= s[k + 1]
        /\ \A v \in {numbers[k] : k \in DOMAIN numbers} :
               Cardinality({k \in DOMAIN s : s[k] = v})
                   = Cardinality({k \in DOMAIN numbers : numbers[k] = v})

\* C11: on every non-empty list iter_ranges yields, in ascending order,
\* exactly the closed ranges of the reference: every range yielded is the
\* run of consecutive integers from its run's start to its run's end, a
\* number 50 above the start stays in the run and one 51 above starts a new
\* run, and {1, 2, 3, 60, 61, 200} gives [1,3], [60,61], [200,200].
C11_IterRanges ==
    (ret.call = "iter_ranges" /\ ret.status = "ok" /\ ret.args[1] # <<>>) =>
        LET numbers == ret.args[1]
            yielded == Val(ret.value)
            asc == Ascending(numbers)
            ref == RefRuns(Tail(asc), Head(asc), Head(asc))
        IN  /\ Len(yielded) = Len(ref)
            /\ \A k \in DOMAIN yielded :
                   yielded[k] = [j \in 1..(ref[k][2] - ref[k][1] + 1) |-> ref[k][1] + j - 1]
            /\ \A k \in 1..(Len(yielded) - 1) :
                   yielded[k][Len(yielded[k])] < yielded[k + 1][1]
            /\ ({numbers[k] : k \in DOMAIN numbers} = {1, 51} => Len(yielded) = 1)
            /\ ({numbers[k] : k \in DOMAIN numbers} = {1, 52} => Len(yielded) = 2)
            /\ ({numbers[k] : k \in DOMAIN numbers} = {1, 2, 3, 60, 61, 200} =>
                    yielded = << <<1, 2, 3>>, <<60, 61>>, <<200>> >>)

\* a list given out of order whose numbers fall into more than one run was
\* run through iter_ranges
C11_Witness ==
    /\ ret.call = "iter_ranges"
    /\ ret.status = "ok"
    /\ ret.args[1] = <<200, 61, 3, 60, 2, 1>>
    /\ Len(Val(ret.value)) = 3

\* ---- C12 ----
\* the files named by the merge points of the traces
Referenced(trs) == UNION { DOMAIN trs[t].merge_point_files : t \in DOMAIN trs }

\* C12: an extract_source_code_lines call that meets a file it cannot read
\* does not abort, still adds the lines of every readable file the merge
\* points name, and adds no lines for the unreadable file.
C12_UnreadableScoped ==
    [][ (/\ ret'.call = "extract_source_code_lines"
         /\ \E f \in Referenced(traces) : f \notin DOMAIN Disk)
        => /\ ret'.status = "ok"
           /\ \A f \in Referenced(traces) \cap DOMAIN Disk :
                  /\ f \in DOMAIN source_lines'
                  /\ Len(source_lines'[f]) >
                         (IF f \in DOMAIN source_lines THEN Len(source_lines[f]) ELSE 0)
           /\ \A f \in Referenced(traces) \ DOMAIN Disk :
                  f \in DOMAIN source_lines' => source_lines'[f] = <<>>
      ]_vars

\* ---- C15 ----
\* C15: over the lifetime of the forest no source file is read from disk
\* more than once, whatever the number of traces naming it and of
\* extract_source_code_lines calls.
C15_ReadOnce ==
    \A f \in {opened[k] : k \in DOMAIN opened} :
        Cardinality({k \in DOMAIN opened : opened[k] = f}) <= 1

\* ---- C13 ----
\* C13: for every operation of the assembly stage that has a capture and the
\* patches the trace has cached, the image FlatOp.get_core_dump rebuilds is
\* never longer than the capture, at any time stamp asked for.
C13_OverlayNeverGrows ==
    \A t \in DOMAIN traces :
        ("asm" \in DOMAIN traces[t].stages /\ ~IsNone(traces[t].my_patches)) =>
            \A k \in DOMAIN traces[t].stages["asm"].ops :
                LET op == traces[t].stages["asm"].ops[k] IN
                (~isinstance_MergePoint(op) /\ ~IsNone(op.core_dump)) =>
                    \A tv \in (QueryTimes \ {-1}) \cup {2147483647} :
                        Len(FlatOp_get_core_dump(op, traces[t].addrs[1],
                                                 Val(traces[t].my_patches), tv))
                            <= Len(Val(op.core_dump)[2])

\* ---- C14 ----
\* C14: once get_core_dump has cached the patches of a trace, a patch_memory
\* or set_addr_bounds call leaves the cached list as it is and leaves
\* unchanged what get_core_dump returns for every timeval and slice.
C14_PatchCacheOnce ==
    [][ ret'.call \in {"patch_memory", "set_addr_bounds"} =>
            \A t \in DOMAIN traces :
                ~IsNone(traces[t].my_patches) =>
                    /\ traces'[t].my_patches = traces[t].my_patches
                    /\ \A tv \in QueryTimes, sl \in OpSlices :
                           Trace_get_core_dump(traces'[t], patches', tv, sl)
                               = Trace_get_core_dump(traces[t], patches, tv, sl)
      ]_vars

\* ---- C16 ----
\* the number of operations that are no merge points among the first i - 1
\* of ops: the place in 'ops', counted from 1, of the one preceding ops[i]
PrecedingOps(ops, i) ==
    Cardinality({j \in 1..(i - 1) : ~isinstance_MergePoint(ops[j])})

MergePointsAt(ops, k) ==
    SelectSeq([i \in DOMAIN ops |-> <<i, ops[i]>>],
              LAMBDA p : isinstance_MergePoint(p[2]) /\ PrecedingOps(ops, p[1]) = k)

\* C16: Stage._serialize lists the operations that are no merge points in
\* their order in 'ops', files every merge point under the place in 'ops' of
\* the operation preceding it (merge points of one key in their order), and
\* sets 'first' to the key of the earliest merge point; merge points after
\* the first and the third operation get the keys 1 and 3, 'first' is 1.
C16_SerializeMergePoints ==
    ret.call = "_serialize" =>
        LET stage == traces[ret.tid].stages[ret.args[1]]
            ops == stage.ops
            out == Val(ret.value)
            plain == SelectSeq(ops, LAMBDA op : ~isinstance_MergePoint(op))
            points == {i \in DOMAIN ops : isinstance_MergePoint(ops[i])}
            keys == {PrecedingOps(ops, i) : i \in points}
        IN  /\ out.ops = [k \in DOMAIN plain |-> FlatOp_serialize(plain[k])]
            /\ out.tick = stage.timeval
            /\ DOMAIN out.merge_points.at = keys
            /\ \A k \in keys :
                   out.merge_points.at[k] =
                       [n \in DOMAIN MergePointsAt(ops, k) |->
                           MergePoint_serialize(MergePointsAt(ops, k)[n][2])]
            /\ out.merge_points.first =
                   IF points = {} THEN None
                   ELSE Some(PrecedingOps(ops, CHOOSE i \in points :
                                                   \A j \in points : i <= j))
            /\ ([i \in DOMAIN ops |-> isinstance_MergePoint(ops[i])]
                    = <<FALSE, TRUE, FALSE, FALSE, TRUE>>
                => /\ DOMAIN out.merge_points.at = {1, 3}
                   /\ out.merge_points.first = Some(1))

\* a stage with merge points after its first and its third operation was
\* serialized
C16_Witness ==
    /\ ret.call = "_serialize"
    /\ traces[1].stages["noopt"].ops = <<PlainOp, SourceLine, GuardOp, PlainOp, FirstLine>>
    /\ Val(ret.value).merge_points.first = Some(1)
    /\ Len(Val(ret.value).ops) = 3

\* ---- C17 ----
\* C17: a step that keeps an operation in its stage leaves the core dump the
\* operation has, a further set_core_dump_to_last_op on it included.
C17_CapturedOnce ==
    [][ \A t \in DOMAIN traces \cap DOMAIN traces' :
            ret'.call \notin {"add_trace", "start_mark"} =>
                \A m \in DOMAIN traces[t].stages \cap DOMAIN traces'[t].stages :
                    \A k \in DOMAIN traces[t].stages[m].ops :
                        LET op == traces[t].stages[m].ops[k] IN
                        (~isinstance_MergePoint(op) /\ ~IsNone(op.core_dump)) =>
                            traces'[t].stages[m].ops[k].core_dump = op.core_dump
      ]_vars

\* ---- C18 ----
\* C18: add_instr on a trace without current stage fails and leaves the
\* trace as it was, its descr_numbers, stages and merge_point_files included.
C18_AddInstrNoStage ==
    [][ (/\ ret'.call = "add_instr"
         /\ ret'.tid \in DOMAIN traces
         /\ IsNone(traces[ret'.tid].last_mark))
        => /\ ret'.status # "ok"
           /\ traces'[ret'.tid] = traces[ret'.tid]
      ]_vars

\* ---- C19 ----
\* the core dumps of all operations of the trace, by stage and place
CoreDumps(trace) ==
    [m \in DOMAIN trace.stages |->
        [k \in DOMAIN trace.stages[m].ops |->
            IF isinstance_MergePoint(trace.stages[m].ops[k]) THEN None
            ELSE trace.stages[m].ops[k].core_dump]]

\* the call cannot attach a dump: no current stage, a current stage without
\* operations, or a merge point as its last operation
NoLastFlatOp(trace) ==
    \/ IsNone(trace.last_mark)
    \/ trace.stages[Val(trace.last_mark)].ops = <<>>
    \/ LET ops == trace.stages[Val(trace.last_mark)].ops IN
       isinstance_MergePoint(ops[Len(ops)])

\* C19: set_core_dump_to_last_op fails on a trace without current stage, on
\* a current stage without operations and on a last operation that is a
\* merge point, and then changes the core dump of no operation of the trace.
C19_SetCoreDumpFails ==
    [][ (/\ ret'.call = "set_core_dump_to_last_op"
         /\ ret'.tid \in DOMAIN traces
         /\ NoLastFlatOp(traces[ret'.tid]))
        => /\ ret'.status # "ok"
           /\ CoreDumps(traces'[ret'.tid]) = CoreDumps(traces[ret'.tid])
      ]_vars

\* the call has failed on a merge point that follows an operation with a
\* core dump
C19_Witness ==
    /\ ret.call = "set_core_dump_to_last_op"
    /\ ret.status = "NotImplementedError"
    /\ \E k \in DOMAIN traces[1].stages["asm"].ops :
           LET op == traces[1].stages["asm"].ops[k] IN
           ~isinstance_MergePoint(op) /\ ~IsNone(op.core_dump)

\* ---- C20 ----
\* no stage and no bridge record is stamped later than the clock, and the
\* times of the bridge records of a trace do not decrease along the list
StampsBehindClock ==
    \A t \in DOMAIN traces :
        /\ \A m \in DOMAIN traces[t].stages : traces[t].stages[m].timeval <= timepos
        /\ \A k \in DOMAIN traces[t].bridges : traces[t].bridges[k][1] <= timepos
        /\ \A k \in 1..(Len(traces[t].bridges) - 1) :
               traces[t].bridges[k][1] <= traces[t].bridges[k + 1][1]

\* C20: after every step of add_trace, time_tick, start_mark, add_instr and
\* stitch_bridge every stage's timeval and every bridge record's time is at
\* most timepos, the bridge times of a trace are non-decreasing in append
\* order, and a stage that a start_mark step creates carries the timepos of
\* that step.
C20_StampsBoundedByClock ==
    [][ /\ StampsBehindClock'
        /\ ret'.call = "start_mark" =>
               \A m \in DOMAIN traces'[ret'.tid].stages :
                   (m \notin DOMAIN traces[ret'.tid].stages
                        \/ traces'[ret'.tid].stages[m] # traces[ret'.tid].stages[m])
                   => /\ traces'[ret'.tid].stages[m].timeval = timepos
                      /\ timepos' = timepos
      ]_vars

\* a trace holds a stage created after the clock has moved and two bridge
\* records stamped at different times
C20_Witness ==
    /\ timepos > 0
    /\ \E t \in DOMAIN traces :
           /\ \E m \in DOMAIN traces[t].stages : traces[t].stages[m].timeval = timepos
           /\ Len(traces[t].bridges) = 2
           /\ traces[t].bridges[1][1] < traces[t].bridges[2][1]

====
